---- MODULE Spec2Model ----
(***************************************************************************)
(* Meeting session coordinator of the dataquest meeting platform: the      *)
(* socket.io handlers (socket/socketHandlers.js), the Meeting document     *)
(* methods (models/Meeting.js) and the REST meeting routes                  *)
(* (routes/meetings.js).                                                    *)
(*                                                                         *)
(* Every handler is cut at its awaits: the store is read or written at     *)
(* one instant, the code between two awaits runs as one step.  A document  *)
(* read by findOne is a private copy; save() sends what the copy changed:  *)
(* an array push is sent as an append to the stored array, an assignment   *)
(* of a whole array as a replacement guarded by the document version.      *)
(***************************************************************************)
EXTENDS Integers, Sequences, FiniteSets, TLC

\* ------------------------------------------------------------------ bounds
\* capacities a created meeting may be given: 1..MaxCapacity
MaxCapacity == 2
\* departure broadcasts counted per session since its last join: 0..MaxDepartures
MaxDepartures == 2
\* milliseconds the clock can advance: Date.now() in 0..MaxClock
MaxClock == 2
\* room events followed to the clients: at most MaxEvents are produced
MaxEvents == 3
\* chat texts have 1..MaxText characters
MaxText == 3
\* participant lists a client is given have 0..MaxList entries
MaxList == 3

\* -------------------------------------------------------- program constants
\* the default lifetime of a meeting: 24 * 60 * 60 * 1000 milliseconds
DayMs == 86400000

\* ---------------------------------------------------------------- universe
Null == "null"      \* null / undefined user identifier or password
NoRoom == <<>>      \* null / undefined room name

Users == {"u1", "u2"}
Sockets == {"s1", "s2", "s3", "s4"}

\* io.use: the identity the middleware gives a connection (null for a guest)
SockUser(s) ==
  CASE s = "s1" -> "u1"
    [] s = "s2" -> "u1"
    [] s = "s3" -> "u2"
    [] OTHER -> Null

isAuthenticated(s) == SockUser(s) # Null

UserName(u) == IF u = "u1" THEN "Ann" ELSE IF u = "u2" THEN "Bob" ELSE "Guest"

\* String.prototype.toUpperCase on one character, then on a string
UpperChar(c) ==
  CASE c = "a" -> "A"
    [] c = "b" -> "B"
    [] c = "x" -> "X"
    [] c = "y" -> "Y"
    [] OTHER -> c

toUpperCase(str) == [i \in DOMAIN str |-> UpperChar(str[i])]

\* identifiers generateMeetingId can return, and identifiers clients send
AB == <<"A", "B">>
ab == <<"a", "b">>
XY == <<"X", "Y">>
MeetingIds == {AB, XY}
RoomNames == {AB, ab, XY}

Passwords == {"pw", "bad", Null}

\* chat texts clients send: characters, a space among them
Chars == {" ", "h"}
Messages == UNION {[1..n -> Chars] : n \in 1..MaxText}

\* the names on the participant lists a client is given, in the order
\* String.prototype.localeCompare puts them (lower case before upper case)
Collation == <<"Ann", "bob", "Bob", "Guest">>
ListEntries ==
  [userId : Users, name : {Collation[i] : i \in DOMAIN Collation},
   isHost : BOOLEAN]
ParticipantLists == UNION {[1..n -> ListEntries] : n \in 0..MaxList}

\* the two optional flags of a status request
Flags == {"isMuted", "isVideoOn"}

\* the signaling events and the opaque payloads (SDP, candidates) they carry
SignalEvents == {"webrtc-offer", "webrtc-answer", "webrtc-ice-candidate"}
Payloads == {"sdp1", "sdp2"}

\* String.prototype.trim: leading and trailing whitespace removed
trim(str) ==
  LET trimStart[i \in 0..Len(str)] ==
        IF i < Len(str) /\ str[i + 1] = " " THEN trimStart[i + 1] ELSE i
      trimEnd[j \in 0..Len(str)] ==
        IF j > trimStart[0] /\ str[j] = " " THEN trimEnd[j - 1] ELSE j
  IN SubSeq(str, trimStart[0] + 1, trimEnd[Len(str)])

\* the result of a lookup that found nothing; a stored slot that holds nothing
NoDoc ==
  [exists |-> FALSE, hostId |-> Null, isActive |-> FALSE, maxParticipants |-> 0,
   requirePassword |-> FALSE, meetingPassword |-> Null, participants |-> <<>>,
   expiresAt |-> 0]

\* what findOneAndDelete leaves of a meeting: generateMeetingId draws the
\* identifiers at random, so that of a deleted meeting is not given out again
Gone == [NoDoc EXCEPT !.expiresAt = -1]

VARIABLES
  db,              \* meetings collection: meetingId -> document or NoDoc
  conn,            \* socket -> "connected" | "disconnected"
  rooms,           \* socket.io adapter: socket -> set of room names it is in
  currentMeeting,  \* socket.currentMeeting
  jpc,             \* join-meeting handler of a socket: "idle" | "find" | "save"
  jreq,            \* data.meetingId of the join in flight
  jdoc,            \* the handler's copy of the document
  rpc,             \* REST handler of a user: "idle" | "joinSave" | "leaveSave"
  rreq,            \* req.params.meetingId of the REST request in flight
  rdoc,            \* the REST handler's copy of the document
  rstale,          \* the stored version moved on since the REST handler read
  out,             \* what the last step emitted
  upd,             \* update-participant-status handler of a socket: its locals
  mut,             \* mute-participant handler of a socket: its locals
  overlapped,      \* history: two joins of one user were in flight together
  joined,          \* history: socket -> rooms joined and not left since
  departed,        \* history: socket -> user-disconnected broadcasts about it
                   \*          since its last join
  now,             \* the clock Date.now() reads, in milliseconds
  chan,            \* socket -> room events on their way to its client, in order
  inbox,           \* client of a socket: the room events it has received
  applied,         \* client of a socket: the offers handleOffer has applied
  produced,        \* the number of room events emitted to followed clients
  peerConnections, \* client of a socket: user ids it holds a peer connection for
  participants,    \* a client's participants state (VideoGrid)
  rendered         \* the list that client's ParticipantsList shows

\* the coordinator's own state
serverVars == <<db, conn, rooms, currentMeeting, jpc, jreq, jdoc,
                rpc, rreq, rdoc, rstale, upd, mut, out, overlapped, joined,
                departed>>

\* what the participants panel of a client holds
uiVars == <<participants, rendered>>

vars == <<serverVars, now, chan, inbox, applied, produced, peerConnections,
          uiVars>>

\* ------------------------------------------------------------ Meeting.js
SeqFilter(seq, Keep(_)) ==
  LET F[i \in 0..Len(seq)] ==
        IF i = 0 THEN <<>>
        ELSE IF Keep(seq[i]) THEN Append(F[i - 1], seq[i]) ELSE F[i - 1]
  IN F[Len(seq)]

HasEntry(doc, userId) ==
  \E i \in DOMAIN doc.participants : doc.participants[i].userId = userId

\* participantSchema defaults applied to {userId, name, isHost}
Participant(userId, name, isHost) ==
  [userId |-> userId, name |-> name, isHost |-> isHost,
   isMuted |-> FALSE, isVideoOn |-> TRUE]

\* meetingSchema.methods.addParticipant: [doc, pushed, threw]
addParticipant(doc, userId, name, isHost) ==
  IF HasEntry(doc, userId)
  THEN [doc |-> doc, pushed |-> FALSE, threw |-> FALSE]
  ELSE IF Len(doc.participants) >= doc.maxParticipants
  THEN [doc |-> doc, pushed |-> FALSE, threw |-> TRUE]
  ELSE [doc |-> [doc EXCEPT !.participants =
                   Append(@, Participant(userId, name, isHost))],
        pushed |-> TRUE, threw |-> FALSE]

\* meetingSchema.methods.removeParticipant
removeParticipant(doc, userId) ==
  LET Keep(p) == p.userId # userId
  IN [doc EXCEPT !.participants = SeqFilter(@, Keep)]

\* participants.find(...): the position of the user's first entry
FirstEntry(doc, userId) ==
  CHOOSE i \in DOMAIN doc.participants :
    /\ doc.participants[i].userId = userId
    /\ \A j \in 1..(i - 1) : doc.participants[j].userId # userId

\* meetingSchema.methods.updateParticipant: [doc, found, threw].  The find
\* callback calls userId.toString(): with a null userId it throws on the
\* first entry it visits, and finds nothing in an empty list
updateParticipant(doc, userId, isMuted, isVideoOn) ==
  IF userId = Null
  THEN [doc |-> doc, found |-> FALSE, threw |-> doc.participants # <<>>]
  ELSE IF ~HasEntry(doc, userId)
  THEN [doc |-> doc, found |-> FALSE, threw |-> FALSE]
  ELSE [doc |-> [doc EXCEPT
                   !.participants[FirstEntry(doc, userId)].isMuted = isMuted,
                   !.participants[FirstEntry(doc, userId)].isVideoOn = isVideoOn],
        found |-> TRUE, threw |-> FALSE]

\* meetingSchema.methods.isUserHost
isUserHost(doc, userId) == doc.hostId = userId

\* mutant: the lookup without its isActive filter
findOne_AnyActivity(meetingId) ==
  LET id == toUpperCase(meetingId)
  IN IF id \in MeetingIds /\ db[id].exists THEN db[id] ELSE NoDoc

\* Meeting.findOne({meetingId: id.toUpperCase()}) of the delete route
findOneOfAny(meetingId) ==
  LET id == toUpperCase(meetingId)
  IN IF id \in MeetingIds /\ db[id].exists THEN db[id] ELSE NoDoc

\* Meeting.findOne({meetingId: id.toUpperCase(), isActive: true})
findOne(meetingId) ==
  LET id == toUpperCase(meetingId)
  IN IF id \in MeetingIds /\ db[id].exists /\ db[id].isActive
     THEN db[id] ELSE NoDoc

\* ------------------------------------------------------------- socket.io
RoomMembers(r) == {s \in Sockets : r \in rooms[s]}

\* an emitted event; id, kind and text are those of a chat message record,
\* target is the targetUserId of the request that caused it
Evt(to, ev, from, room, status, msg) ==
  [to |-> to, ev |-> ev, from |-> from, room |-> room, status |-> status,
   msg |-> msg, id |-> 0, kind |-> "", text |-> <<>>, target |-> Null]

\* socket.emit: a packet for a closed connection is dropped
Emit(s, ev, room, msg) ==
  IF conn[s] = "connected" THEN {Evt(s, ev, s, room, 0, msg)} ELSE {}

\* mutant: the sender is sent its own broadcast
Broadcast_ToAll(s, members, ev, room) ==
  {Evt(t, ev, s, room, 0, "") : t \in members}

\* socket.to(room).emit: every socket in the room but the sender
Broadcast(s, members, ev, room) ==
  {Evt(t, ev, s, room, 0, "") : t \in members \ {s}}

\* io.to(room).emit: every socket in the room
IoEmit(from, ev, room) ==
  {Evt(t, ev, from, room, 0, "") : t \in RoomMembers(room)}

\* res.status(status).json({message: msg})
Res(u, status, msg) == {Evt(u, "response", u, NoRoom, status, msg)}

\* a save that increments the stored version makes every copy read before
\* it stale for a later versioned save
Staled(id) ==
  [u \in Users |-> rstale[u] \/ (rpc[u] # "idle" /\ toUpperCase(rreq[u]) = id)]

\* the locals of a status or mute handler that is not running
NoUpdate ==
  [pc |-> "idle", meetingId |-> NoRoom, meeting |-> NoDoc,
   isMuted |-> FALSE, isVideoOn |-> FALSE, modified |-> FALSE, stale |-> FALSE,
   given |-> {}]

NoMute ==
  [pc |-> "idle", meetingId |-> NoRoom, meeting |-> NoDoc, targetUserId |-> Null]

\* the same for the copies the status handlers hold
UpdStaled(id) ==
  [s \in Sockets |->
     IF upd[s].pc # "idle" /\ toUpperCase(upd[s].meetingId) = id
     THEN [upd[s] EXCEPT !.stale = TRUE] ELSE upd[s]]

\* --------------------------------------------------------------- initial
\* the store is empty and every connection has just been accepted:
\* io.on('connection') has registered its handlers
Init ==
  /\ db = [id \in MeetingIds |-> NoDoc]
  /\ conn = [s \in Sockets |-> "connected"]
  /\ rooms = [s \in Sockets |-> {}]
  /\ currentMeeting = [s \in Sockets |-> NoRoom]
  /\ jpc = [s \in Sockets |-> "idle"]
  /\ jreq = [s \in Sockets |-> NoRoom]
  /\ jdoc = [s \in Sockets |-> NoDoc]
  /\ rpc = [u \in Users |-> "idle"]
  /\ rreq = [u \in Users |-> NoRoom]
  /\ rdoc = [u \in Users |-> NoDoc]
  /\ rstale = [u \in Users |-> FALSE]
  /\ upd = [s \in Sockets |-> NoUpdate]
  /\ mut = [s \in Sockets |-> NoMute]
  /\ out = {}
  /\ overlapped = FALSE
  /\ joined = [s \in Sockets |-> {}]
  /\ departed = [s \in Sockets |-> 0]
  /\ now = 0
  /\ chan = [s \in Sockets |-> <<>>]
  /\ inbox = [s \in Sockets |-> <<>>]
  /\ applied = [s \in Sockets |-> {}]
  /\ peerConnections = [s \in Sockets |-> {}]
  /\ participants = <<>>
  /\ rendered = <<>>
  /\ produced = 0


\* ----------------------------------------------------- socketHandlers.js
\* a join handler of this user is between its lookup and its end
JoinInFlight(userId) ==
  \/ \E t \in Sockets : SockUser(t) = userId /\ jpc[t] # "idle"
  \/ rpc[userId] = "joinSave"

\* socket.on('join-meeting'), up to the document findOne resolves with
JoinStart(s, meetingId) ==
  /\ conn[s] = "connected"
  /\ jpc[s] = "idle"
  /\ jpc' = [jpc EXCEPT ![s] = "find"]
  /\ jreq' = [jreq EXCEPT ![s] = meetingId]
  /\ jdoc' = [jdoc EXCEPT ![s] = findOne(meetingId)]
  /\ overlapped' = (overlapped \/ (isAuthenticated(s) /\ JoinInFlight(SockUser(s))))
  /\ out' = {}
  /\ UNCHANGED <<db, conn, rooms, currentMeeting, rpc, rreq, rdoc, rstale, joined,
                 upd, mut, departed>>

\* mutant: the pushed participant is given the host flag
PushedParticipant_AsHost(s) == Participant(SockUser(s), UserName(SockUser(s)), TRUE)

\* the participant the handler pushes for an authenticated user
PushedParticipant(s) == Participant(SockUser(s), UserName(SockUser(s)), FALSE)

\* mutant: the membership test never finds the user
isParticipant_Never(s) == FALSE

\* isParticipant: meeting.participants.some(p => p.userId == socket.userId)
isParticipant(s) == HasEntry(jdoc[s], SockUser(s))

\* the handler adds the user to its copy and saves
NeedsSave(s) == isAuthenticated(s) /\ ~isParticipant(s)

\* socket.join(meetingId): a no-op once the connection is closed
SocketJoin(s, room) ==
  [rooms EXCEPT ![s] = IF conn[s] = "connected" THEN @ \cup {room} ELSE @]

\* mutant: the catch block answers after meeting-joined was sent
JoinReply_Both(s) ==
  Emit(s, "error", jreq[s], "Failed to join meeting")
    \cup Emit(s, "meeting-joined", jreq[s], "notHost")

\* the reply: meeting.isUserHost(socket.userId) throws on a null userId, and
\* the catch block answers with an error instead of meeting-joined
JoinReply(s) ==
  IF SockUser(s) = Null
  THEN Emit(s, "error", jreq[s], "Failed to join meeting")
  ELSE Emit(s, "meeting-joined", jreq[s],
            IF isUserHost(jdoc[s], SockUser(s)) THEN "isHost" ELSE "notHost")

\* lines 81-106: join the room, notify the others, answer the joiner
JoinTail(s) ==
  /\ rooms' = SocketJoin(s, jreq[s])
  /\ currentMeeting' = [currentMeeting EXCEPT ![s] = jreq[s]]
  /\ out' = Broadcast(s, RoomMembers(jreq[s]), "user-connected", jreq[s])
              \cup JoinReply(s)
  /\ joined' = [joined EXCEPT ![s] =
                  IF conn[s] = "connected" THEN @ \cup {jreq[s]} ELSE @]
  /\ departed' = [departed EXCEPT ![s] = IF conn[s] = "connected" THEN 0 ELSE @]
  /\ jpc' = [jpc EXCEPT ![s] = "idle"]
  /\ jreq' = [jreq EXCEPT ![s] = NoRoom]
  /\ jdoc' = [jdoc EXCEPT ![s] = NoDoc]

\* the handler resumes with the document: not found, or a participant (or a
\* guest) who joins at once, or an authenticated user who is pushed and saved
JoinCheck(s) ==
  /\ jpc[s] = "find"
  /\ IF ~jdoc[s].exists
     THEN /\ out' = Emit(s, "error", jreq[s], "Meeting not found")
          /\ jpc' = [jpc EXCEPT ![s] = "idle"]
          /\ jreq' = [jreq EXCEPT ![s] = NoRoom]
          /\ jdoc' = [jdoc EXCEPT ![s] = NoDoc]
          /\ UNCHANGED <<rooms, currentMeeting, joined, departed>>
     ELSE IF NeedsSave(s)
     THEN /\ jpc' = [jpc EXCEPT ![s] = "save"]
          /\ out' = {}
          /\ UNCHANGED <<rooms, currentMeeting, joined, departed, jreq, jdoc>>
     ELSE JoinTail(s)
  /\ UNCHANGED <<db, conn, rpc, rreq, rdoc, rstale, upd, mut, overlapped>>

\* meeting.save() of a pushed participant: appended to the stored array
SavePush(id, p) ==
  [db EXCEPT ![id].participants = Append(@, p)]

\* save resolves, and the handler runs to its end; the save of a document
\* deleted meanwhile rejects, and the catch block answers the joiner
JoinSave(s) ==
  /\ jpc[s] = "save"
  /\ IF db[toUpperCase(jreq[s])].exists
     THEN /\ db' = SavePush(toUpperCase(jreq[s]), PushedParticipant(s))
          /\ rstale' = Staled(toUpperCase(jreq[s]))
          /\ upd' = UpdStaled(toUpperCase(jreq[s]))
          /\ JoinTail(s)
     ELSE /\ jpc' = [jpc EXCEPT ![s] = "idle"]
          /\ jreq' = [jreq EXCEPT ![s] = NoRoom]
          /\ jdoc' = [jdoc EXCEPT ![s] = NoDoc]
          /\ out' = Emit(s, "error", jreq[s], "Failed to join meeting")
          /\ UNCHANGED <<db, rstale, upd, rooms, currentMeeting, joined, departed>>
  /\ UNCHANGED <<conn, rpc, rreq, rdoc, mut, overlapped>>

\* findOne or save rejects: the catch block answers the joiner
JoinFails(s) ==
  /\ jpc[s] # "idle"
  /\ jpc' = [jpc EXCEPT ![s] = "idle"]
  /\ jreq' = [jreq EXCEPT ![s] = NoRoom]
  /\ jdoc' = [jdoc EXCEPT ![s] = NoDoc]
  /\ out' = Emit(s, "error", jreq[s], "Failed to join meeting")
  /\ UNCHANGED <<db, conn, rooms, currentMeeting, rpc, rreq, rdoc, rstale,
                 upd, mut, overlapped, joined, departed>>

\* mutant: leave-meeting keeps the room reference
LeftMeeting_Kept(s) == currentMeeting[s]

\* socket.currentMeeting = null
LeftMeeting(s) == NoRoom

\* one more user-disconnected broadcast about s
Departed(s) ==
  [departed EXCEPT ![s] = IF @ < MaxDepartures THEN @ + 1 ELSE @]

\* socket.on('leave-meeting')
Leave(s) ==
  /\ conn[s] = "connected"
  /\ IF currentMeeting[s] # NoRoom
     THEN /\ rooms' = [rooms EXCEPT ![s] = @ \ {currentMeeting[s]}]
          /\ out' = Broadcast(s, RoomMembers(currentMeeting[s]),
                              "user-disconnected", currentMeeting[s])
          /\ currentMeeting' = [currentMeeting EXCEPT ![s] = LeftMeeting(s)]
          /\ departed' = Departed(s)
     ELSE /\ out' = {}
          /\ UNCHANGED <<rooms, currentMeeting, departed>>
  /\ joined' = [joined EXCEPT ![s] = {}]
  /\ UNCHANGED <<db, conn, jpc, jreq, jdoc, rpc, rreq, rdoc, rstale, upd, mut,
                 overlapped>>

\* the transport closes: socket.io takes the socket out of every room, then
\* socket.on('disconnect') runs
Disconnect(s) ==
  /\ conn[s] = "connected"
  /\ conn' = [conn EXCEPT ![s] = "disconnected"]
  /\ rooms' = [rooms EXCEPT ![s] = {}]
  /\ out' = IF currentMeeting[s] # NoRoom
            THEN Broadcast(s, RoomMembers(currentMeeting[s]),
                           "user-disconnected", currentMeeting[s])
            ELSE {}
  /\ joined' = [joined EXCEPT ![s] = {}]
  /\ departed' = IF currentMeeting[s] # NoRoom THEN Departed(s) ELSE departed
  /\ UNCHANGED <<db, currentMeeting, jpc, jreq, jdoc, rpc, rreq, rdoc, rstale,
                 upd, mut, overlapped>>

\* the payload of participant-status-updated
StatusMsg(isMuted, isVideoOn) ==
  IF isMuted
  THEN (IF isVideoOn THEN "muted,videoOn" ELSE "muted,videoOff")
  ELSE (IF isVideoOn THEN "unmuted,videoOn" ELSE "unmuted,videoOff")

\* the payload the handler builds from the entry it changed: a flag the
\* request did not carry is undefined in the entry and missing in the payload
StatusPayload(u) ==
  IF u.given = Flags THEN StatusMsg(u.isMuted, u.isVideoOn)
  ELSE IF u.given = {"isMuted"}
  THEN (IF u.isMuted THEN "muted" ELSE "unmuted")
  ELSE (IF u.isVideoOn THEN "videoOn" ELSE "videoOff")

\* io.to(room).emit with a payload
IoEmitMsg(from, ev, room, msg) ==
  {Evt(t, ev, from, room, 0, msg) : t \in RoomMembers(room)}

\* mutant: the membership guard lets every request through
NotInMeeting_Never(s, meetingId) == FALSE

\* !socket.currentMeeting || socket.currentMeeting !== meetingId
NotInMeeting(s, meetingId) ==
  currentMeeting[s] = NoRoom \/ currentMeeting[s] # meetingId

\* socket.on('update-participant-status'), up to the document findOne
\* resolves with; the request carries the flags in given.  A flag it does
\* not carry is undefined: Object.assign writes undefined into the entry,
\* save unsets the stored field, and every later read gives the schema
\* default (isMuted false, isVideoOn true), which is the value kept here
UpdateRequest(s, meetingId, isMuted, isVideoOn, given) ==
  /\ conn[s] = "connected"
  /\ upd[s].pc = "idle"
  /\ IF NotInMeeting(s, meetingId)
     THEN /\ out' = Emit(s, "error", meetingId, "Not in this meeting")
          /\ UNCHANGED upd
     ELSE /\ upd' = [upd EXCEPT ![s] =
                       [pc |-> "find", meetingId |-> meetingId,
                        meeting |-> findOne(meetingId),
                        isMuted |-> ("isMuted" \in given /\ isMuted),
                        isVideoOn |-> ("isVideoOn" \in given => isVideoOn),
                        modified |-> FALSE, stale |-> FALSE, given |-> given]]
          /\ out' = {}
  /\ UNCHANGED <<db, conn, rooms, currentMeeting, jpc, jreq, jdoc, rpc, rreq, rdoc,
                 rstale, mut, overlapped, joined, departed>>

\* a request that carries both flags
UpdateStart(s, meetingId, isMuted, isVideoOn) ==
  UpdateRequest(s, meetingId, isMuted, isVideoOn, Flags)

\* a request that carries one flag only, as the client's toggles send
UpdatePartial(s, meetingId, flag, value) ==
  UpdateRequest(s, meetingId, value, value, {flag})

\* the handler resumes with the document: no meeting or no entry ends it in
\* silence, a throwing updateParticipant ends it in the catch block, a found
\* entry is changed on the copy and saved
UpdateCheck(s) ==
  /\ upd[s].pc = "find"
  /\ LET u == upd[s]
         r == updateParticipant(u.meeting, SockUser(s), u.isMuted, u.isVideoOn)
     IN IF ~u.meeting.exists
        THEN /\ upd' = [upd EXCEPT ![s] = NoUpdate]
             /\ out' = {}
        ELSE IF r.threw
        THEN /\ upd' = [upd EXCEPT ![s] = NoUpdate]
             /\ out' = Emit(s, "error", u.meetingId, "Failed to update status")
        ELSE IF ~r.found
        THEN /\ upd' = [upd EXCEPT ![s] = NoUpdate]
             /\ out' = {}
        ELSE /\ upd' = [upd EXCEPT ![s].pc = "save", ![s].meeting = r.doc,
                                   ![s].modified = (r.doc # u.meeting)]
             /\ out' = {}
  /\ UNCHANGED <<db, conn, rooms, currentMeeting, jpc, jreq, jdoc, rpc, rreq, rdoc,
                 rstale, mut, overlapped, joined, departed>>

\* meeting.save() of a changed array element: sent as a $set of the element's
\* fields, refused when the stored version moved on since the read; nothing
\* is sent when the flags did not change.  Then the room is told
UpdateSave(s) ==
  /\ upd[s].pc = "save"
  /\ LET u == upd[s]
         id == toUpperCase(u.meetingId)
         i == FirstEntry(u.meeting, SockUser(s))
     IN IF u.modified /\ (u.stale \/ ~db[id].exists)
        THEN /\ out' = Emit(s, "error", u.meetingId, "Failed to update status")
             /\ UNCHANGED db
        ELSE /\ db' = IF u.modified
                      THEN [db EXCEPT ![id].participants[i].isMuted = u.isMuted,
                                      ![id].participants[i].isVideoOn = u.isVideoOn]
                      ELSE db
             /\ out' = IoEmitMsg(s, "participant-status-updated", u.meetingId,
                                 StatusPayload(u))
  /\ upd' = [upd EXCEPT ![s] = NoUpdate]
  /\ UNCHANGED <<conn, rooms, currentMeeting, jpc, jreq, jdoc, rpc, rreq, rdoc,
                 rstale, mut, overlapped, joined, departed>>

\* findOne or save rejects: the catch block answers the sender
UpdateFails(s) ==
  /\ upd[s].pc # "idle"
  /\ upd' = [upd EXCEPT ![s] = NoUpdate]
  /\ out' = Emit(s, "error", upd[s].meetingId, "Failed to update status")
  /\ UNCHANGED <<db, conn, rooms, currentMeeting, jpc, jreq, jdoc, rpc, rreq, rdoc,
                 rstale, mut, overlapped, joined, departed>>

\* socket.on('mute-participant'), up to the document findOne resolves with
MuteStart(s, meetingId, targetUserId) ==
  /\ conn[s] = "connected"
  /\ mut[s].pc = "idle"
  /\ mut' = [mut EXCEPT ![s] =
               [pc |-> "find", meetingId |-> meetingId,
                meeting |-> findOne(meetingId), targetUserId |-> targetUserId]]
  /\ out' = {}
  /\ UNCHANGED <<db, conn, rooms, currentMeeting, jpc, jreq, jdoc, rpc, rreq, rdoc,
                 rstale, upd, overlapped, joined, departed>>

\* mutant: the mute-request does not name its target
MuteRequest_NoTarget(s, m) ==
  IoEmitMsg(s, "mute-request", m.meetingId, Null)

\* io.to(meetingId).emit('mute-request', {targetUserId, fromHost: true})
MuteRequest(s, m) ==
  IoEmitMsg(s, "mute-request", m.meetingId, m.targetUserId)

\* the handler resumes with the document: !meeting || !meeting.isUserHost(
\* socket.userId), where isUserHost throws on a null userId and the catch
\* block answers
MuteCheck(s) ==
  /\ mut[s].pc = "find"
  /\ LET m == mut[s]
     IN out' = IF ~m.meeting.exists
               THEN Emit(s, "error", m.meetingId,
                         "Not authorized to mute participants")
               ELSE IF SockUser(s) = Null
               THEN Emit(s, "error", m.meetingId, "Failed to mute participant")
               ELSE IF ~isUserHost(m.meeting, SockUser(s))
               THEN Emit(s, "error", m.meetingId,
                         "Not authorized to mute participants")
               ELSE MuteRequest(s, m)
  /\ mut' = [mut EXCEPT ![s] = NoMute]
  /\ UNCHANGED <<db, conn, rooms, currentMeeting, jpc, jreq, jdoc, rpc, rreq, rdoc,
                 rstale, upd, overlapped, joined, departed>>

\* findOne rejects: the catch block answers the requester
MuteFails(s) ==
  /\ mut[s].pc # "idle"
  /\ mut' = [mut EXCEPT ![s] = NoMute]
  /\ out' = Emit(s, "error", mut[s].meetingId, "Failed to mute participant")
  /\ UNCHANGED <<db, conn, rooms, currentMeeting, jpc, jreq, jdoc, rpc, rreq, rdoc,
                 rstale, upd, overlapped, joined, departed>>

\* fromUserId: socket.userId || `guest-${socket.id}`
FromUserId(s) == IF SockUser(s) # Null THEN SockUser(s) ELSE "guest-s4"

\* mutant: the relayed payload is rewritten
Relay_Rewritten(s, ev, room, targetUserId, payload) ==
  {[Evt(t, ev, s, room, 0, "sdp0") EXCEPT !.target = targetUserId] :
     t \in RoomMembers(room) \ {s}}

\* socket.to(meetingId).emit(ev, {fromUserId, payload}): the payload as it
\* came; targetUserId is read from the request and not forwarded
Relay(s, ev, room, targetUserId, payload) ==
  {[Evt(t, ev, s, room, 0, payload) EXCEPT !.target = targetUserId] :
     t \in RoomMembers(room) \ {s}}

\* socket.on('webrtc-offer' | 'webrtc-answer' | 'webrtc-ice-candidate')
RelaySignal(s, ev, meetingId, targetUserId, payload) ==
  /\ conn[s] = "connected"
  /\ out' = Relay(s, ev, meetingId, targetUserId, payload)
  /\ UNCHANGED <<db, conn, rooms, currentMeeting, jpc, jreq, jdoc, rpc, rreq, rdoc,
                 rstale, upd, mut, overlapped, joined, departed>>

\* mutant: the message text is relayed as submitted
chatMessage_Untrimmed(s, message, type) ==
  [id |-> now, userName |-> UserName(SockUser(s)), message |-> message,
   type |-> type]

\* chatMessage: {id: Date.now().toString(), userId, userName, message:
\* message.trim(), type, timestamp}.  The id is kept as the number it prints:
\* millisecond timestamps have the same number of digits, so the strings
\* are equal and ordered as the numbers are
chatMessage(s, message, type) ==
  [id |-> now, userName |-> UserName(SockUser(s)), message |-> trim(message),
   type |-> type]

\* io.to(meetingId).emit('new-message', chatMessage)
NewMessage(s, room, m) ==
  {[Evt(t, "new-message", s, room, 0, m.userName)
      EXCEPT !.id = m.id, !.kind = m.type, !.text = m.message] :
     t \in RoomMembers(room)}

\* socket.on('send-message'): the handler has no await
SendMessage(s, meetingId, message, type) ==
  /\ conn[s] = "connected"
  /\ out' = IF NotInMeeting(s, meetingId)
            THEN Emit(s, "error", meetingId, "Not in this meeting")
            ELSE NewMessage(s, meetingId, chatMessage(s, message, type))
  /\ UNCHANGED <<db, conn, rooms, currentMeeting, jpc, jreq, jdoc, rpc, rreq, rdoc,
                 rstale, upd, mut, overlapped, joined, departed>>

\* ------------------------------------------------------------ the clients
\* the events the clients listen for on a room
RoomEvents ==
  {"user-connected", "user-disconnected", "participant-joined",
   "participant-left", "new-message", "participant-status-updated",
   "mute-request"} \cup SignalEvents

\* what a step emitted is put on the connections of the clients in C, each
\* packet stamped with the number of the emission that produced it; clients
\* outside C are not followed.  A step emits one room event at most
Wire(C) ==
  LET sent == {e \in out' : e.ev \in RoomEvents /\ e.to \in C}
  IN /\ sent # {} => produced < MaxEvents
     /\ produced' = IF sent # {} THEN produced + 1 ELSE produced
     /\ chan' = [t \in Sockets |->
                  IF \E e \in sent : e.to = t
                  THEN Append(chan[t], [n |-> produced + 1,
                                        e |-> CHOOSE e \in sent : e.to = t])
                  ELSE chan[t]]
     /\ UNCHANGED <<now, inbox, applied, peerConnections, uiVars>>

\* mutant: the connection hands over its newest packet first
Receive_Newest(q) ==
  [packet |-> q[Len(q)], rest |-> SubSeq(q, 1, Len(q) - 1)]

\* a connection hands its packets to socket.on listeners in the order sent
Receive(q) == [packet |-> Head(q), rest |-> Tail(q)]

\* the 'webrtc-offer' listener: handleOffer(data.fromUserId, data.offer)
\* creates the peer connection, applies the offer and answers it
handleOffer(t, e) ==
  [applied EXCEPT ![t] = @ \cup {[from |-> FromUserId(e.from),
                                  target |-> e.target]}]

\* the userId a membership event carries: socket.userId || `guest-${
\* socket.id}` in user-connected, socket.userId (null for a guest) in
\* user-disconnected
DataUserId(e) ==
  IF e.ev = "user-connected" THEN FromUserId(e.from) ELSE SockUser(e.from)

\* getCurrentUserId: the stored user's id, or a fresh guest id
getCurrentUserId(t) == IF SockUser(t) # Null THEN SockUser(t) ELSE "guest-now"

\* removePeerConnection(userId): this.peerConnections.delete(userId)
removePeerConnection(t, userId) == peerConnections[t] \ {userId}

\* the listeners of WebRTCService: user-connected creates a peer connection
\* for data.userId, user-disconnected removes the one of data.userId, and
\* handleOffer creates one for the sender of the offer
PeersAfter(t, e) ==
  IF e.ev = "user-connected"
  THEN (IF DataUserId(e) # Null /\ DataUserId(e) # getCurrentUserId(t)
        THEN peerConnections[t] \cup {DataUserId(e)} ELSE peerConnections[t])
  ELSE IF e.ev = "user-disconnected"
  THEN removePeerConnection(t, DataUserId(e))
  ELSE IF e.ev = "webrtc-offer"
  THEN peerConnections[t] \cup {FromUserId(e.from)}
  ELSE peerConnections[t]

\* the client of t receives its next packet and runs the listener: on
\* mute-request with fromHost, handleToggleMute(true) mutes and sends
\* update-participant-status with isMuted true; on webrtc-offer, handleOffer
Deliver(t) ==
  /\ chan[t] # <<>>
  /\ LET p == Receive(chan[t]).packet
     IN /\ chan' = [chan EXCEPT ![t] = Receive(@).rest]
        /\ inbox' = [inbox EXCEPT ![t] = Append(@, p)]
        /\ applied' = IF p.e.ev = "webrtc-offer" THEN handleOffer(t, p.e)
                      ELSE applied
        /\ IF p.e.ev = "mute-request"
           THEN UpdatePartial(t, p.e.room, "isMuted", TRUE)
           ELSE UNCHANGED serverVars
        /\ peerConnections' = [peerConnections EXCEPT ![t] = PeersAfter(t, p.e)]
  /\ UNCHANGED <<now, produced, uiVars>>

\* a.name.localeCompare(b.name): negative, zero or positive
localeCompare(a, b) ==
  LET rank(n) == CHOOSE i \in DOMAIN Collation : Collation[i] = n
  IN rank(a) - rank(b)

\* mutant: the comparator without its host rule
compare_ByName(a, b) == localeCompare(a.name, b.name)

\* the comparator of sortedParticipants: host first, then alphabetical
compare(a, b) ==
  IF a.isHost /\ ~b.isHost THEN 0 - 1
  ELSE IF ~a.isHost /\ b.isHost THEN 1
  ELSE localeCompare(a.name, b.name)

\* [...list].sort(compare): the sort is stable, each entry goes behind the
\* entries that do not come after it
sortedParticipants(list) ==
  LET insert(seq, x) ==
        LET k == Cardinality({i \in 1..Len(seq) : compare(seq[i], x) <= 0})
        IN SubSeq(seq, 1, k) \o <<x>> \o SubSeq(seq, k + 1, Len(seq))
      sorted[n \in 0..Len(list)] ==
        IF n = 0 THEN <<>> ELSE insert(sorted[n - 1], list[n])
  IN sorted[Len(list)]

\* setParticipants(list)
SetParticipants(list) ==
  /\ participants' = list
  /\ UNCHANGED <<serverVars, now, chan, inbox, applied, produced,
                 peerConnections, rendered>>

\* the participants panel is shown: ParticipantsList renders the list sorted
Render ==
  /\ rendered' = sortedParticipants(participants)
  /\ UNCHANGED <<serverVars, now, chan, inbox, applied, produced,
                 peerConnections, participants>>

\* the expiresAt time of the stored meeting has passed
Expired(doc) == doc.exists /\ doc.expiresAt < now

\* a day passes
Elapse ==
  /\ now <= MaxClock
  /\ now' = now + DayMs
  /\ UNCHANGED <<serverVars, chan, inbox, applied, produced, peerConnections,
                 uiVars>>

\* a millisecond passes
Tick ==
  /\ now % DayMs < MaxClock
  /\ now' = now + 1
  /\ UNCHANGED <<serverVars, chan, inbox, applied, produced, peerConnections,
                 uiVars>>

\* ------------------------------------------------------ routes/meetings.js
\* new Meeting({...}) with the host added as first participant, as created
\* when the clock reads 0: expiresAt defaults to Date.now() + 24 h
NewMeeting(hostId, maxParticipants, requirePassword) ==
  addParticipant(
    [exists |-> TRUE, hostId |-> hostId, isActive |-> TRUE,
     maxParticipants |-> maxParticipants, requirePassword |-> requirePassword,
     meetingPassword |-> IF requirePassword THEN "pw" ELSE Null,
     participants |-> <<>>, expiresAt |-> DayMs],
    hostId, UserName(hostId), TRUE).doc

\* POST /create
Create(u, id, maxParticipants, requirePassword) ==
  /\ db[id] = NoDoc
  /\ db' = [db EXCEPT ![id] =
              [NewMeeting(u, maxParticipants, requirePassword)
                 EXCEPT !.expiresAt = now + DayMs]]
  /\ out' = Res(u, 201, "Meeting created successfully")
  /\ UNCHANGED <<conn, rooms, currentMeeting, jpc, jreq, jdoc, rpc, rreq, rdoc,
                 rstale, upd, mut, overlapped, joined, departed>>

\* POST /join/:meetingId, from the lookup to the response or to the save
RestJoin(u, meetingId, password) ==
  /\ rpc[u] = "idle"
  /\ overlapped' = (overlapped \/ \E t \in Sockets : SockUser(t) = u /\ jpc[t] # "idle")
  /\ LET meeting == findOne(meetingId)
     IN IF ~meeting.exists
        THEN /\ out' = Res(u, 404, "Meeting not found or has ended")
             /\ UNCHANGED <<rpc, rreq, rdoc, rstale>>
        ELSE IF meeting.requirePassword /\ meeting.meetingPassword # password
        THEN /\ out' = Res(u, 401, "Invalid meeting password")
             /\ UNCHANGED <<rpc, rreq, rdoc, rstale>>
        ELSE IF Len(meeting.participants) >= meeting.maxParticipants
        THEN /\ out' = Res(u, 400, "Meeting is full")
             /\ UNCHANGED <<rpc, rreq, rdoc, rstale>>
        ELSE IF HasEntry(meeting, u)
        THEN /\ out' = Res(u, 200, "Already in meeting")
             /\ UNCHANGED <<rpc, rreq, rdoc, rstale>>
        ELSE /\ rpc' = [rpc EXCEPT ![u] = "joinSave"]
             /\ rreq' = [rreq EXCEPT ![u] = meetingId]
             /\ rdoc' = [rdoc EXCEPT ![u] = meeting]
             /\ rstale' = [rstale EXCEPT ![u] = FALSE]
             /\ out' = {}
  /\ UNCHANGED <<db, conn, rooms, currentMeeting, jpc, jreq, jdoc, upd, mut,
                 joined, departed>>

\* the request handler returns: its locals are gone
RestEnd(u, stale) ==
  /\ rpc' = [rpc EXCEPT ![u] = "idle"]
  /\ rreq' = [rreq EXCEPT ![u] = NoRoom]
  /\ rdoc' = [rdoc EXCEPT ![u] = NoDoc]
  /\ rstale' = [stale EXCEPT ![u] = FALSE]

\* save resolves: the room is told, the request answered; the save of a
\* document deleted meanwhile rejects
RestJoinSave(u) ==
  /\ rpc[u] = "joinSave"
  /\ IF db[toUpperCase(rreq[u])].exists
     THEN /\ LET added ==
                 addParticipant(rdoc[u], u, UserName(u), FALSE).doc.participants
             IN db' = SavePush(toUpperCase(rreq[u]), added[Len(added)])
          /\ RestEnd(u, Staled(toUpperCase(rreq[u])))
          /\ out' = IoEmit(u, "participant-joined", rreq[u])
                      \cup Res(u, 200, "Successfully joined meeting")
          /\ upd' = UpdStaled(toUpperCase(rreq[u]))
     ELSE /\ out' = Res(u, 500, "Internal server error")
          /\ RestEnd(u, rstale)
          /\ UNCHANGED <<db, upd>>
  /\ UNCHANGED <<conn, rooms, currentMeeting, jpc, jreq, jdoc, mut, overlapped,
                 joined, departed>>

\* POST /:meetingId/leave, from the lookup to the response or to the save
RestLeave(u, meetingId) ==
  /\ rpc[u] = "idle"
  /\ LET meeting == findOne(meetingId)
     IN IF ~meeting.exists
        THEN /\ out' = Res(u, 404, "Meeting not found or has ended")
             /\ UNCHANGED <<rpc, rreq, rdoc, rstale>>
        ELSE /\ rpc' = [rpc EXCEPT ![u] = "leaveSave"]
             /\ rreq' = [rreq EXCEPT ![u] = meetingId]
             /\ rdoc' = [rdoc EXCEPT ![u] = meeting]
             /\ rstale' = [rstale EXCEPT ![u] = FALSE]
             /\ out' = {}
  /\ UNCHANGED <<db, conn, rooms, currentMeeting, jpc, jreq, jdoc, upd, mut,
                 overlapped, joined, departed>>

\* meeting.save() of a replaced array: refused when the stored version moved
\* on since the read; nothing is sent when the array did not change
RestLeaveSave(u) ==
  /\ rpc[u] = "leaveSave"
  /\ LET id == toUpperCase(rreq[u])
         left == removeParticipant(rdoc[u], u).participants
         modified == left # rdoc[u].participants
     IN IF modified /\ (rstale[u] \/ ~db[id].exists)
        THEN /\ out' = Res(u, 500, "Internal server error")
             /\ RestEnd(u, rstale)
             /\ UNCHANGED <<db, upd>>
        ELSE /\ db' = IF modified THEN [db EXCEPT ![id].participants = left] ELSE db
             /\ upd' = IF modified THEN UpdStaled(id) ELSE upd
             /\ RestEnd(u, IF modified THEN Staled(id) ELSE rstale)
             /\ out' = IoEmit(u, "participant-left", rreq[u])
                         \cup Res(u, 200, "Successfully left meeting")
  /\ UNCHANGED <<conn, rooms, currentMeeting, jpc, jreq, jdoc, mut, overlapped,
                 joined, departed>>

\* DELETE /:meetingId: the lookup is sent
Delete(u, meetingId) ==
  /\ rpc[u] = "idle"
  /\ rpc' = [rpc EXCEPT ![u] = "deleteFind"]
  /\ rreq' = [rreq EXCEPT ![u] = meetingId]
  /\ rdoc' = [rdoc EXCEPT ![u] = findOneOfAny(meetingId)]
  /\ rstale' = [rstale EXCEPT ![u] = FALSE]
  /\ out' = {}
  /\ UNCHANGED <<db, conn, rooms, currentMeeting, jpc, jreq, jdoc, upd, mut,
                 overlapped, joined, departed>>

\* the route resumes with the document: 404, 403 for anyone but the host, or
\* meeting-deleted to the room named in the request and findOneAndDelete
DeleteCheck(u) ==
  /\ rpc[u] = "deleteFind"
  /\ IF ~rdoc[u].exists
     THEN /\ out' = Res(u, 404, "Meeting not found")
          /\ RestEnd(u, rstale)
     ELSE IF ~isUserHost(rdoc[u], u)
     THEN /\ out' = Res(u, 403, "Only the host can delete the meeting")
          /\ RestEnd(u, rstale)
     ELSE /\ out' = IoEmit(u, "meeting-deleted", rreq[u])
          /\ rpc' = [rpc EXCEPT ![u] = "deleteRun"]
          /\ UNCHANGED <<rreq, rdoc, rstale>>
  /\ UNCHANGED <<db, conn, rooms, currentMeeting, jpc, jreq, jdoc, upd, mut,
                 overlapped, joined, departed>>

\* findOneAndDelete resolves: the document is gone, the request answered
DeleteDone(u) ==
  /\ rpc[u] = "deleteRun"
  /\ db' = [db EXCEPT ![toUpperCase(rreq[u])] = IF @.exists THEN Gone ELSE @]
  /\ RestEnd(u, rstale)
  /\ out' = Res(u, 200, "Meeting deleted successfully")
  /\ UNCHANGED <<conn, rooms, currentMeeting, jpc, jreq, jdoc, upd, mut,
                 overlapped, joined, departed>>

\* save rejects: the catch block answers 500
RestFails(u) ==
  /\ rpc[u] # "idle"
  /\ RestEnd(u, rstale)
  /\ out' = Res(u, 500, "Internal server error")
  /\ UNCHANGED <<db, conn, rooms, currentMeeting, jpc, jreq, jdoc, upd, mut,
                 overlapped, joined, departed>>

\* ------------------------------------------------------------------ system
\* the socket handlers, for connections S and requested names N; a
\* connection has one join handler in flight at a time.  Here and below C
\* are the connections whose clients are followed
SocketNext(S, N, C) ==
  \/ \E s \in S, r \in N : JoinStart(s, r) /\ Wire(C)
  \/ \E s \in S : JoinCheck(s) /\ Wire(C)
  \/ \E s \in S : JoinSave(s) /\ Wire(C)
  \/ \E s \in S : JoinFails(s) /\ Wire(C)
  \/ \E s \in S : Leave(s) /\ Wire(C)
  \/ \E s \in S : Disconnect(s) /\ Wire(C)

\* the REST routes, for users U and requested names N, and the meetings M
\* that hosts H create; a user has one join or leave request in flight at a time
RestNext(U, N, M, H, C) ==
  \/ \E u \in H, id \in M, c \in 1..MaxCapacity, p \in BOOLEAN :
       Create(u, id, c, p) /\ Wire(C)
  \/ \E u \in U, r \in N, pw \in Passwords : RestJoin(u, r, pw) /\ Wire(C)
  \/ \E u \in U : RestJoinSave(u) /\ Wire(C)
  \/ \E u \in U, r \in N : RestLeave(u, r) /\ Wire(C)
  \/ \E u \in U : RestLeaveSave(u) /\ Wire(C)
  \/ \E u \in U : RestFails(u) /\ Wire(C)

\* DELETE /:meetingId, for users U and requested names N
DeleteNext(U, N, C) ==
  \/ \E u \in U, r \in N : Delete(u, r) /\ Wire(C)
  \/ \E u \in U : DeleteCheck(u) /\ Wire(C)
  \/ \E u \in U : DeleteDone(u) /\ Wire(C)
  \/ \E u \in U : RestFails(u) /\ Wire(C)

\* POST /:meetingId/leave alone, for users U and requested names N
LeaveNext(U, N, C) ==
  \/ \E u \in U, r \in N : RestLeave(u, r) /\ Wire(C)
  \/ \E u \in U : RestLeaveSave(u) /\ Wire(C)
  \/ \E u \in U : RestFails(u) /\ Wire(C)

\* the status handlers, for connections S, requested names N and requested
\* flags in M and V; a connection has one status handler in flight at a time
StatusNext(S, N, M, V, C) ==
  \/ \E s \in S, r \in N, m \in M, v \in V : UpdateStart(s, r, m, v) /\ Wire(C)
  \/ \E s \in S : UpdateCheck(s) /\ Wire(C)
  \/ \E s \in S : UpdateSave(s) /\ Wire(C)
  \/ \E s \in S : UpdateFails(s) /\ Wire(C)

\* status requests that carry one flag, for connections S and names N
PartialNext(S, N, C) ==
  \E s \in S, r \in N, f \in Flags, v \in BOOLEAN :
    UpdatePartial(s, r, f, v) /\ Wire(C)

\* the host controls, for connections S, requested names N and targets T
MuteNext(S, N, T, C) ==
  \/ \E s \in S, r \in N, u \in T : MuteStart(s, r, u) /\ Wire(C)
  \/ \E s \in S : MuteCheck(s) /\ Wire(C)
  \/ \E s \in S : MuteFails(s) /\ Wire(C)

\* the chat relay, for connections S, requested names N and texts X
ChatNext(S, N, X, C) ==
  \E s \in S, r \in N, x \in X : SendMessage(s, r, x, "text") /\ Wire(C)

\* the signaling relay, for connections S, requested names N, targets T and
\* payloads P
SignalNext(S, N, T, P, C) ==
  \E s \in S, ev \in SignalEvents, r \in N, u \in T, p \in P :
    RelaySignal(s, ev, r, u, p) /\ Wire(C)

\* the followed clients
ClientNext(C) == \E t \in C : Deliver(t)

\* the participants panel, given the lists in L
PanelNext(L) ==
  \/ \E list \in L : SetParticipants(list)
  \/ Render

Next ==
  \/ SocketNext(Sockets, RoomNames, Sockets)
  \/ StatusNext(Sockets, RoomNames, BOOLEAN, BOOLEAN, Sockets)
  \/ PartialNext(Sockets, RoomNames, Sockets)
  \/ MuteNext(Sockets, RoomNames, Users, Sockets)
  \/ ChatNext(Sockets, RoomNames, Messages, Sockets)
  \/ SignalNext(Sockets, RoomNames, Users, Payloads, Sockets)
  \/ RestNext(Users, RoomNames, MeetingIds, Users, Sockets)
  \/ DeleteNext(Users, RoomNames, Sockets)
  \/ ClientNext(Sockets)
  \/ PanelNext(ParticipantLists)
  \/ Tick
  \/ Elapse

Spec == Init /\ [][Next]_vars

\* the persisted record of one meeting: both join paths, both leave paths
NextPersist ==
  \/ SocketNext({"s1", "s3"}, {AB}, {})
  \/ RestNext({"u1"}, {AB}, {AB}, Users, {})
SpecPersist == Init /\ [][NextPersist]_vars

\* two meetings already in the store, created by u2 with POST /create
InitRooms ==
  /\ \E c \in 1..MaxCapacity :
       db = [id \in MeetingIds |->
               IF id = AB THEN NewMeeting("u2", c, TRUE)
               ELSE NewMeeting("u2", MaxCapacity, FALSE)]
  /\ conn = [s \in Sockets |-> "connected"]
  /\ rooms = [s \in Sockets |-> {}]
  /\ currentMeeting = [s \in Sockets |-> NoRoom]
  /\ jpc = [s \in Sockets |-> "idle"]
  /\ jreq = [s \in Sockets |-> NoRoom]
  /\ jdoc = [s \in Sockets |-> NoDoc]
  /\ rpc = [u \in Users |-> "idle"]
  /\ rreq = [u \in Users |-> NoRoom]
  /\ rdoc = [u \in Users |-> NoDoc]
  /\ rstale = [u \in Users |-> FALSE]
  /\ upd = [s \in Sockets |-> NoUpdate]
  /\ mut = [s \in Sockets |-> NoMute]
  /\ out = {}
  /\ overlapped = FALSE
  /\ joined = [s \in Sockets |-> {}]
  /\ departed = [s \in Sockets |-> 0]
  /\ now = 0
  /\ chan = [s \in Sockets |-> <<>>]
  /\ inbox = [s \in Sockets |-> <<>>]
  /\ applied = [s \in Sockets |-> {}]
  /\ peerConnections = [s \in Sockets |-> {}]
  /\ participants = <<>>
  /\ rendered = <<>>
  /\ produced = 0

\* the socket handlers alone: two connections of one user and a guest
NextRooms == SocketNext({"s1", "s2", "s4"}, {AB}, {})
SpecRooms == InitRooms /\ [][NextRooms]_vars

\* case variants of one identifier, and a second meeting
NextNames == SocketNext({"s1", "s4"}, {AB, ab, XY}, {})
SpecNames == InitRooms /\ [][NextNames]_vars

\* a store that holds a meeting marked inactive (meetingSchema.isActive, the
\* field every lookup filters on), and no other meeting yet
InitInactive ==
  /\ db = [id \in MeetingIds |->
             IF id = XY
             THEN [NewMeeting("u2", MaxCapacity, FALSE) EXCEPT !.isActive = FALSE]
             ELSE NoDoc]
  /\ conn = [s \in Sockets |-> "connected"]
  /\ rooms = [s \in Sockets |-> {}]
  /\ currentMeeting = [s \in Sockets |-> NoRoom]
  /\ jpc = [s \in Sockets |-> "idle"]
  /\ jreq = [s \in Sockets |-> NoRoom]
  /\ jdoc = [s \in Sockets |-> NoDoc]
  /\ rpc = [u \in Users |-> "idle"]
  /\ rreq = [u \in Users |-> NoRoom]
  /\ rdoc = [u \in Users |-> NoDoc]
  /\ rstale = [u \in Users |-> FALSE]
  /\ upd = [s \in Sockets |-> NoUpdate]
  /\ mut = [s \in Sockets |-> NoMute]
  /\ out = {}
  /\ overlapped = FALSE
  /\ joined = [s \in Sockets |-> {}]
  /\ departed = [s \in Sockets |-> 0]
  /\ now = 0
  /\ chan = [s \in Sockets |-> <<>>]
  /\ inbox = [s \in Sockets |-> <<>>]
  /\ applied = [s \in Sockets |-> {}]
  /\ peerConnections = [s \in Sockets |-> {}]
  /\ participants = <<>>
  /\ rendered = <<>>
  /\ produced = 0

\* lookups of a meeting that is absent, inactive, or created meanwhile
NextLookup ==
  \/ SocketNext({"s1", "s4"}, {AB, XY}, {})
  \/ RestNext({"u1"}, {AB, XY}, {AB}, {"u2"}, {})
SpecLookup == InitInactive /\ [][NextLookup]_vars

\* status updates in the meeting AB of host u2, by a user and by a guest who
\* mute and unmute
NextStatus ==
  \/ SocketNext({"s1", "s4"}, {AB}, {})
  \/ StatusNext({"s1", "s4"}, {AB, XY}, BOOLEAN, {TRUE}, {})
SpecStatus == InitRooms /\ [][NextStatus]_vars

\* host controls in the meeting AB of host u2: requests of the host, of
\* another user and of a guest
NextMute ==
  \/ SocketNext({"s1", "s3"}, {AB}, {})
  \/ MuteNext({"s1", "s3", "s4"}, {AB, XY}, {"u1"}, {})
SpecMute == InitRooms /\ [][NextMute]_vars

\* a call under way in the meeting AB of host u2: the connections in S have
\* joined it with join-meeting, which added an entry for u1, and every
\* handler has ended
InCall(S) ==
  /\ db = [id \in MeetingIds |->
             IF id = AB
             THEN [NewMeeting("u2", MaxCapacity, TRUE) EXCEPT
                     !.participants = IF "s1" \in S
                                      THEN Append(@, PushedParticipant("s1"))
                                      ELSE @]
             ELSE NewMeeting("u2", MaxCapacity, FALSE)]
  /\ conn = [s \in Sockets |-> "connected"]
  /\ rooms = [s \in Sockets |-> IF s \in S THEN {AB} ELSE {}]
  /\ currentMeeting = [s \in Sockets |-> IF s \in S THEN AB ELSE NoRoom]
  /\ jpc = [s \in Sockets |-> "idle"]
  /\ jreq = [s \in Sockets |-> NoRoom]
  /\ jdoc = [s \in Sockets |-> NoDoc]
  /\ rpc = [u \in Users |-> "idle"]
  /\ rreq = [u \in Users |-> NoRoom]
  /\ rdoc = [u \in Users |-> NoDoc]
  /\ rstale = [u \in Users |-> FALSE]
  /\ upd = [s \in Sockets |-> NoUpdate]
  /\ mut = [s \in Sockets |-> NoMute]
  /\ out = {}
  /\ overlapped = FALSE
  /\ joined = [s \in Sockets |-> IF s \in S THEN {AB} ELSE {}]
  /\ departed = [s \in Sockets |-> 0]
  /\ now = 0
  /\ chan = [s \in Sockets |-> <<>>]
  /\ inbox = [s \in Sockets |-> <<>>]
  /\ applied = [s \in Sockets |-> {}]
  /\ peerConnections = [s \in Sockets |-> {}]
  /\ participants = <<>>
  /\ rendered = <<>>
  /\ produced = 0

\* host controls with the clients followed: the host u2 and the member u1
\* are in the call, the host asks u1 to mute, the clients react
NextMuteClients ==
  \/ MuteNext({"s3"}, {AB}, {"u1"}, {"s1", "s3"})
  \/ StatusNext({"s1", "s3"}, {AB}, {TRUE}, {TRUE}, {"s1", "s3"})
  \/ ClientNext({"s1", "s3"})
SpecMuteClients == InCall({"s1", "s3"}) /\ [][NextMuteClients]_vars

\* the signaling relay: the host u2 is in the call AB, u1 and a guest join
\* and leave it, and all three send offers, answers and candidates for it
NextSignal ==
  \/ SocketNext({"s1", "s4"}, {AB}, {})
  \/ SignalNext({"s1", "s3", "s4"}, {AB}, Users, Payloads, {})
SpecSignal == InCall({"s3"}) /\ [][NextSignal]_vars

\* the signaling relay with the clients followed: three members in the call
\* send each other signals, the clients apply what they receive
NextSignalClients ==
  \/ SignalNext({"s1", "s3", "s4"}, {AB}, Users, {"sdp1"}, {"s1", "s3", "s4"})
  \/ ClientNext({"s1", "s3", "s4"})
SpecSignalClients == InCall({"s1", "s3", "s4"}) /\ [][NextSignalClients]_vars

\* the chat relay: the host u2 is in the call AB, u1 and a guest join and
\* leave it, and u1 and u2 send texts for AB and for XY
NextChat ==
  \/ SocketNext({"s1", "s4"}, {AB}, {})
  \/ ChatNext({"s1", "s3"}, {AB, XY}, Messages, {})
SpecChat == InCall({"s3"}) /\ [][NextChat]_vars

\* the events of one room with the clients followed: the host u2 is in the
\* call AB, u1 joins and leaves it, both chat, u1 updates its status
NextRoomEvents ==
  \/ SocketNext({"s1"}, {AB}, {"s1", "s3"})
  \/ ChatNext({"s1", "s3"}, {AB}, {<<"h">>}, {"s1", "s3"})
  \/ StatusNext({"s1"}, {AB}, {TRUE}, {TRUE}, {"s1", "s3"})
  \/ ClientNext({"s1", "s3"})
  \/ Tick
SpecRoomEvents == InCall({"s3"}) /\ [][NextRoomEvents]_vars

\* the participants panel alone: a client holds some list of participants,
\* and the panel is opened
InitPanel ==
  /\ db = [id \in MeetingIds |-> NoDoc]
  /\ conn = [s \in Sockets |-> "connected"]
  /\ rooms = [s \in Sockets |-> {}]
  /\ currentMeeting = [s \in Sockets |-> NoRoom]
  /\ jpc = [s \in Sockets |-> "idle"]
  /\ jreq = [s \in Sockets |-> NoRoom]
  /\ jdoc = [s \in Sockets |-> NoDoc]
  /\ rpc = [u \in Users |-> "idle"]
  /\ rreq = [u \in Users |-> NoRoom]
  /\ rdoc = [u \in Users |-> NoDoc]
  /\ rstale = [u \in Users |-> FALSE]
  /\ upd = [s \in Sockets |-> NoUpdate]
  /\ mut = [s \in Sockets |-> NoMute]
  /\ out = {}
  /\ overlapped = FALSE
  /\ joined = [s \in Sockets |-> {}]
  /\ departed = [s \in Sockets |-> 0]
  /\ now = 0
  /\ chan = [s \in Sockets |-> <<>>]
  /\ inbox = [s \in Sockets |-> <<>>]
  /\ applied = [s \in Sockets |-> {}]
  /\ produced = 0
  /\ peerConnections = [s \in Sockets |-> {}]
  /\ participants \in ParticipantLists
  /\ rendered = <<>>

\* the lifetime of a meeting: u1 and a guest join AB, created when the clock
\* read 0, before and after the day it expires
NextExpiry ==
  \/ SocketNext({"s1", "s4"}, {AB}, {})
  \/ Tick
  \/ Elapse
SpecExpiry == InitRooms /\ [][NextExpiry]_vars

\* joins racing with disconnects: the host u2 is in the call AB, u1 and a
\* guest join, leave and disconnect.  A handler suspended at findOne or at
\* save is resumed when the store answers
NextRace == SocketNext({"s1", "s4"}, {AB}, {})
Resume(s) == (JoinCheck(s) \/ JoinSave(s)) /\ Wire({})
SpecRace ==
  /\ InCall({"s3"})
  /\ [][NextRace]_vars
  /\ \A s \in {"s1", "s4"} : WF_vars(Resume(s))

\* status requests with one flag or both: u1 and the host are in the call
\* AB and send status updates
NextPartial ==
  \/ StatusNext({"s1", "s3"}, {AB}, BOOLEAN, BOOLEAN, {})
  \/ PartialNext({"s1", "s3"}, {AB}, {})
SpecPartial == InCall({"s1", "s3"}) /\ [][NextPartial]_vars

\* overlapping status updates of one participant: two connections of u1 are
\* in the call AB and both send status updates
NextOverlap == StatusNext({"s1", "s2"}, {AB}, BOOLEAN, {TRUE}, {})
SpecOverlap == InCall({"s1", "s2"}) /\ [][NextOverlap]_vars

\* explicit leaves: u1 and the host u2 are in the call AB; u1 leaves through
\* the REST route while the sessions join, leave, disconnect and the host
\* sends status updates
NextLeave ==
  \/ LeaveNext({"u1"}, {AB}, {})
  \/ SocketNext({"s1", "s3"}, {AB}, {})
  \/ StatusNext({"s3"}, {AB}, BOOLEAN, {TRUE}, {})
SpecLeave == InCall({"s1", "s3"}) /\ [][NextLeave]_vars

\* deletion: the host u2 is in the call AB; u1 and the host send delete
\* requests under either spelling of the identifier while u1 joins and leaves
NextDelete ==
  \/ DeleteNext({"u1", "u2"}, {AB, ab}, {})
  \/ SocketNext({"s1"}, {AB}, {})
SpecDelete == InCall({"s3"}) /\ [][NextDelete]_vars

\* peer connections: the host u2 is in the call AB and its client is
\* followed, u1 and a guest join, leave and disconnect
NextPeers ==
  \/ SocketNext({"s1", "s4"}, {AB}, {"s3"})
  \/ ClientNext({"s3"})
SpecPeers == InCall({"s3"}) /\ [][NextPeers]_vars

NextPanel == Render
SpecPanel == InitPanel /\ [][NextPanel]_vars

\* ------------------------------------------------------------- properties
\* the sessions in the room of a meeting, the room named by the normalized
\* identifier
MeetingMembers(id) == {s \in Sockets : \E r \in rooms[s] : toUpperCase(r) = id}

\* the positions of a user's entries in the persisted participant list
Entries(doc, userId) ==
  {i \in DOMAIN doc.participants : doc.participants[i].userId = userId}

NoDuplicateEntries ==
  \A id \in MeetingIds, u \in Users : Cardinality(Entries(db[id], u)) <= 1

AllHandlersIdle ==
  /\ \A s \in Sockets : jpc[s] = "idle"
  /\ \A u \in Users : rpc[u] = "idle"

\* a step of a join handler of user u, on either path
JoinStepOf(u) ==
  \/ \E s \in Sockets : SockUser(s) = u /\ (JoinCheck(s) \/ JoinSave(s))
  \/ \E r \in RoomNames, pw \in Passwords : RestJoin(u, r, pw)
  \/ RestJoinSave(u)

\* the step in which the join handler of s decides and ends
JoinEnds(s) == (JoinCheck(s) \/ JoinSave(s)) /\ jpc'[s] = "idle"

\* C1: the number of sessions that are members of a room never exceeds the
\* persisted meeting's maxParticipants.
C1_MembersWithinCapacity ==
  \A id \in MeetingIds :
    db[id].exists => Cardinality(MeetingMembers(id)) <= db[id].maxParticipants

\* C2: a join by a session whose user has no persisted entry, made when the
\* room's member count equals capacity, is answered to the joiner alone with
\* "Meeting is full" and changes neither the room nor the persisted list; the
\* same join at capacity - 1 registers the session.
C2_JoinAtCapacityIsRefused ==
  [][\A s \in Sockets :
       LET id == toUpperCase(jreq[s])
           fresh == /\ JoinEnds(s)
                    /\ jdoc[s].exists
                    /\ conn[s] = "connected"
                    /\ ~HasEntry(db[id], SockUser(s))
                    /\ s \notin MeetingMembers(id)
       IN /\ (fresh /\ Cardinality(MeetingMembers(id)) = db[id].maxParticipants)
               => /\ rooms' = rooms
                  /\ db' = db
                  /\ out' = Emit(s, "error", jreq[s], "Meeting is full")
          /\ (fresh /\ Cardinality(MeetingMembers(id)) = db[id].maxParticipants - 1)
               => jreq[s] \in rooms'[s]]_vars

\* C3: as long as no two joins of one authenticated user have been in flight
\* together, no persisted participant list holds two entries of one user, and
\* a join step of a user who has an entry leaves that list as it is.
C3_JoinIsIdempotent ==
  [][~overlapped' =>
       /\ NoDuplicateEntries'
       /\ \A u \in Users, id \in MeetingIds :
            (JoinStepOf(u) /\ HasEntry(db[id], u))
              => db'[id].participants = db[id].participants]_vars

\* a rejoin has been answered: no joins have overlapped, u1 has exactly one
\* entry in an existing meeting, and the REST join has told u1 that it is
\* already in the meeting
C3_Witness ==
  /\ ~overlapped
  /\ \E id \in MeetingIds :
       /\ db[id].exists
       /\ Cardinality(Entries(db[id], "u1")) = 1
  /\ \E e \in out : e.to = "u1" /\ e.msg = "Already in meeting"

\* C4: once two overlapping join handlers of one user have ended, the
\* persisted list holds exactly one entry of that user.
C4_OverlappingJoinsOneEntry ==
  (overlapped /\ AllHandlersIdle) => NoDuplicateEntries

\* C5: no two authenticated sessions in one room have the same user identifier.
C5_OneSessionPerUser ==
  \A id \in MeetingIds : \A s, t \in MeetingMembers(id) :
     (s # t /\ isAuthenticated(s) /\ isAuthenticated(t))
       => SockUser(s) # SockUser(t)

\* C6: a session is a member of at most one room.
C6_AtMostOneRoom ==
  \A s \in Sockets : Cardinality({toUpperCase(r) : r \in rooms[s]}) <= 1

HostEntries(doc) ==
  {i \in DOMAIN doc.participants : doc.participants[i].isHost}

\* C7 as claimed: exactly one participant of a meeting holds isHost = true,
\* and it is the meeting's hostId.
C7_ExactlyOneHost ==
  \A id \in MeetingIds :
    db[id].exists =>
      /\ Cardinality(HostEntries(db[id])) = 1
      /\ \A i \in HostEntries(db[id]) :
           db[id].participants[i].userId = db[id].hostId

\* C7 (amended): at most one participant of a meeting holds isHost = true,
\* and a participant that holds it is the meeting's hostId.
C7_AtMostOneHost ==
  \A id \in MeetingIds :
    db[id].exists =>
      /\ Cardinality(HostEntries(db[id])) <= 1
      /\ \A i \in HostEntries(db[id]) :
           db[id].participants[i].userId = db[id].hostId

\* the host has left through the REST leave and joined again: its entry is
\* back, without the host flag, next to another participant's
C7_Witness ==
  \E id \in MeetingIds :
    /\ db[id].exists
    /\ HostEntries(db[id]) = {}
    /\ HasEntry(db[id], db[id].hostId)
    /\ Len(db[id].participants) >= 2

\* C8: while a room is below capacity, its members are the sessions that
\* joined it, are still connected and have not left since.
C8_MembersAreJoinedSessions ==
  \A id \in MeetingIds :
    (db[id].exists /\ Cardinality(MeetingMembers(id)) < db[id].maxParticipants)
      => MeetingMembers(id) =
           {s \in Sockets : \E r \in joined[s] : toUpperCase(r) = id}

\* C9: two sessions that joined one meeting under identifiers that differ in
\* letter case only are in the same room.
C9_CaseVariantsShareRoom ==
  \A s, t \in Sockets : \A r1 \in rooms[s], r2 \in rooms[t] :
     toUpperCase(r1) = toUpperCase(r2) => (r1 \in rooms[t] /\ r2 \in rooms[s])

\* C10: a join to a meeting that requires a password, made without the
\* meeting's password, is refused on every path: the session is not
\* registered and all that is sent is the error answer to the joiner.
C10_PasswordIsChecked ==
  [][/\ \A s \in Sockets :
          (JoinEnds(s) /\ jdoc[s].exists /\ jdoc[s].requirePassword)
            => /\ rooms' = rooms
               /\ db' = db
               /\ \A e \in out' : e.to = s /\ e.ev = "error"
     /\ \A u \in Users, r \in RoomNames, pw \in Passwords :
          (/\ rpc[u] = "idle"
           /\ RestJoin(u, r, pw)
           /\ findOne(r).requirePassword
           /\ findOne(r).meetingPassword # pw)
            => /\ rpc'[u] = "idle"
               /\ out' = Res(u, 401, "Invalid meeting password")]_vars

\* the stored meeting a name resolves to is absent or marked inactive
NoActiveMeeting(meetingId) ==
  ~db[toUpperCase(meetingId)].exists \/ ~db[toUpperCase(meetingId)].isActive

\* C11: a join whose identifier matches no persisted meeting, or a meeting
\* marked inactive, is answered to the joiner alone with "Meeting not found"
\* (404 on the REST path); the session's rooms and room reference and the
\* persisted records stay as they are and nobody else is sent anything.
C11_UnknownMeetingNotFound ==
  [][/\ \A s \in Sockets, r \in RoomNames :
          (JoinStart(s, r) /\ NoActiveMeeting(r)) => ~jdoc'[s].exists
     /\ \A s \in Sockets :
          (JoinCheck(s) /\ ~jdoc[s].exists)
            => /\ rooms' = rooms
               /\ currentMeeting' = currentMeeting
               /\ db' = db
               /\ jpc'[s] = "idle"
               /\ out' \subseteq
                    {Evt(s, "error", s, jreq[s], 0, "Meeting not found")}
               /\ conn[s] = "connected" => out' # {}
     /\ \A u \in Users, r \in RoomNames, pw \in Passwords :
          (RestJoin(u, r, pw) /\ NoActiveMeeting(r))
            => /\ db' = db
               /\ rpc'[u] = "idle"
               /\ out' = Res(u, 404, "Meeting not found or has ended")]_vars

\* a socket join to the inactive meeting has just been answered "Meeting not
\* found", and the joiner is in no room
C11_Witness ==
  /\ db[XY].exists /\ ~db[XY].isActive
  /\ \E e \in out :
       /\ e.ev = "error" /\ e.msg = "Meeting not found" /\ e.room = XY
       /\ rooms[e.to] = {}

\* C12: a join that finds its meeting, by an authenticated user or a guest,
\* sends user-connected to every session already in the room and not to the
\* joiner, and answers the joiner with meeting-joined whose isHost flag is
\* true exactly when the joiner is the meeting's hostId.
C12_JoinNotifiesAndReplies ==
  [][\A s \in Sockets :
       (JoinEnds(s) /\ jdoc[s].exists /\ conn[s] = "connected")
         => /\ \A t \in RoomMembers(jreq[s]) \ {s} :
                 \E e \in out' :
                   e.to = t /\ e.ev = "user-connected" /\ e.from = s
            /\ ~\E e \in out' : e.to = s /\ e.ev = "user-connected"
            /\ \E e \in out' :
                 /\ e.to = s /\ e.ev = "meeting-joined"
                 /\ (e.msg = "isHost") <=> (SockUser(s) = jdoc[s].hostId)]_vars

\* C13: a join that is answered with an error event has registered nothing:
\* the step that sends the error adds the session to no room, leaves its room
\* reference as it was and sends no user-connected about it.
C13_NoPartialRegistration ==
  [][\A s \in Sockets :
       (/\ jpc[s] # "idle" /\ jpc'[s] = "idle"
        /\ \E e \in out' : e.to = s /\ e.ev = "error")
         => /\ rooms'[s] = rooms[s]
            /\ currentMeeting'[s] = currentMeeting[s]
            /\ ~\E e \in out' : e.ev = "user-connected" /\ e.from = s]_vars

\* the answer POST /join/:meetingId gives a user with an entry in the meeting
\* it names
RejoinAnswered(u, r, pw) ==
  /\ RestJoin(u, r, pw)
  /\ findOne(r).exists
  /\ HasEntry(findOne(r), u)
  /\ findOne(r).requirePassword => findOne(r).meetingPassword = pw

\* C14: a join by a user who already has a persisted entry succeeds without
\* error on every path, also when the meeting is at capacity: the socket
\* join registers the session, the REST join answers 200.
C14_RejoinAtCapacitySucceeds ==
  [][/\ \A s \in Sockets :
          (JoinEnds(s) /\ jdoc[s].exists /\ HasEntry(jdoc[s], SockUser(s))
             /\ conn[s] = "connected")
            => /\ jreq[s] \in rooms'[s]
               /\ \E e \in out' : e.to = s /\ e.ev = "meeting-joined"
     /\ \A u \in Users, r \in RoomNames, pw \in Passwords :
          RejoinAnswered(u, r, pw)
            => out' = Res(u, 200, "Already in meeting")]_vars

\* C15: leave-meeting by a session whose room reference is set takes it out
\* of that room, sends user-disconnected to the members that remain and not
\* to the leaver, clears the reference and leaves the persisted records as
\* they are; by a session without a room reference it changes and sends
\* nothing.
C15_LeaveLeavesTheRoom ==
  [][\A s \in Sockets :
       Leave(s) =>
         IF currentMeeting[s] # NoRoom
         THEN /\ currentMeeting[s] \notin rooms'[s]
              /\ \A t \in Sockets \ {s} : rooms'[t] = rooms[t]
              /\ out' = {Evt(t, "user-disconnected", s, currentMeeting[s], 0, "") :
                           t \in RoomMembers(currentMeeting[s]) \ {s}}
              /\ currentMeeting'[s] = NoRoom
              /\ db' = db
         ELSE /\ rooms' = rooms
              /\ currentMeeting' = currentMeeting
              /\ db' = db
              /\ out' = {}]_vars

\* a session has just left: it is still connected, its reference is clear,
\* it is out of the room, and another member was told
C15_Witness ==
  \E e \in out :
    /\ e.ev = "user-disconnected" /\ e.to # e.from
    /\ conn[e.from] = "connected"
    /\ currentMeeting[e.from] = NoRoom
    /\ e.room \notin rooms[e.from]
    /\ e.room \in rooms[e.to]

\* C16: since a session's last join at most one user-disconnected about it
\* has been broadcast: a disconnect after leave-meeting sends no second one.
C16_OneDeparturePerJoin ==
  \A s \in Sockets : departed[s] <= 1

\* a session left its room, which sent the one departure, and then
\* disconnected
C16_Witness ==
  \E s \in Sockets :
    /\ conn[s] = "disconnected"
    /\ currentMeeting[s] = NoRoom
    /\ departed[s] = 1

\* C17: update-participant-status from a session that has no room reference,
\* or whose reference names another meeting than the request, is answered to
\* the sender alone with "Not in this meeting"; the handler ends there, so
\* nothing is broadcast, and the persisted records are unchanged.
C17_UpdateOutsideRoomRefused ==
  [][\A s \in Sockets, r \in RoomNames, m \in BOOLEAN, v \in BOOLEAN :
       (/\ UpdateStart(s, r, m, v)
        /\ \/ currentMeeting[s] = NoRoom
           \/ toUpperCase(currentMeeting[s]) # toUpperCase(r))
         => /\ out' = {Evt(s, "error", s, r, 0, "Not in this meeting")}
            /\ db' = db
            /\ upd'[s].pc = "idle"]_vars

\* a session that is in one meeting has just been refused a status update
\* that named another
C17_Witness ==
  \E e \in out :
    /\ e.ev = "error" /\ e.msg = "Not in this meeting"
    /\ currentMeeting[e.to] # NoRoom
    /\ currentMeeting[e.to] # e.room
    /\ upd[e.to].pc = "idle"

\* the step in which the status handler of s ends without a persistence
\* failure
UpdateEnds(s) ==
  /\ UpdateCheck(s) \/ UpdateSave(s)
  /\ upd'[s].pc = "idle"
  /\ ~(upd[s].modified /\ upd[s].stale)

\* the room has been told the flags s asked for
StatusBroadcast(s) ==
  \A t \in RoomMembers(upd[s].meetingId) :
    \E e \in out' :
      /\ e.to = t /\ e.ev = "participant-status-updated" /\ e.from = s
      /\ e.msg = StatusMsg(upd[s].isMuted, upd[s].isVideoOn)

\* C18: update-participant-status from any session that is a member of the
\* room it names, authenticated or guest, ends with participant-status-updated
\* carrying the new flags sent to every member of the room, the sender
\* included, and for a user with an entry the entry holds the new flags.
C18_UpdateBroadcastsToRoom ==
  [][\A s \in Sockets :
       (/\ UpdateEnds(s)
        /\ upd[s].meeting.exists
        /\ conn[s] = "connected"
        /\ s \in RoomMembers(upd[s].meetingId))
         => /\ StatusBroadcast(s)
            /\ LET doc == db'[toUpperCase(upd[s].meetingId)]
                   u == SockUser(s)
               IN HasEntry(doc, u)
                    => /\ doc.participants[FirstEntry(doc, u)].isMuted
                            = upd[s].isMuted
                       /\ doc.participants[FirstEntry(doc, u)].isVideoOn
                            = upd[s].isVideoOn]_vars

\* C19: when the lookup or the save of a status update from a member of the
\* room fails, participant-status-updated is still sent to the whole room.
C19_UpdateSurvivesPersistenceFailure ==
  [][\A s \in Sockets :
       (/\ \/ UpdateFails(s)
           \/ UpdateSave(s) /\ upd[s].modified /\ upd[s].stale
        /\ conn[s] = "connected"
        /\ s \in RoomMembers(upd[s].meetingId))
         => StatusBroadcast(s)]_vars

\* C20: mute-participant from a session that is not the meeting's host, a
\* non-host user or a guest, is answered to the requester alone with "Not
\* authorized to mute participants", and no mute-request is sent.
C20_MuteByNonHostForbidden ==
  [][\A s \in Sockets :
       (/\ MuteCheck(s)
        /\ conn[s] = "connected"
        /\ ~(mut[s].meeting.exists /\ isAuthenticated(s)
               /\ SockUser(s) = mut[s].meeting.hostId))
         => out' = {Evt(s, "error", s, mut[s].meetingId, 0,
                        "Not authorized to mute participants")}]_vars

\* the request of s is made by the host of the meeting it names
ByHost(s) ==
  /\ mut[s].meeting.exists
  /\ isAuthenticated(s)
  /\ SockUser(s) = mut[s].meeting.hostId

\* C21: mute-participant from the meeting's host sends mute-request carrying
\* the target's user identifier to the room and changes no state of the
\* coordinator: the persisted flags of every participant, the rooms and the
\* room references are the same after the request as before.
C21_MuteRequestChangesNothing ==
  [][\A s \in Sockets :
       (MuteCheck(s) /\ ByHost(s))
         => /\ \A t \in RoomMembers(mut[s].meetingId) :
                 \E e \in out' : e.to = t /\ e.ev = "mute-request"
            /\ \A e \in out' :
                 e.ev = "mute-request" /\ e.msg = mut[s].targetUserId
            /\ db' = db
            /\ rooms' = rooms
            /\ currentMeeting' = currentMeeting
            /\ upd' = upd]_vars

\* the host has just asked u1 to mute: the session of u1 is sent the
\* request, and the persisted entry of u1 is not muted
C21_Witness ==
  /\ \E e \in out :
       e.ev = "mute-request" /\ e.msg = "u1" /\ SockUser(e.to) = "u1"
  /\ HasEntry(db[AB], "u1")
  /\ ~db[AB].participants[FirstEntry(db[AB], "u1")].isMuted

\* C22: a client that receives a mute-request naming another user does not
\* react: it sends no status update, so only the target becomes muted.
C22_OnlyTargetReacts ==
  [][\A t \in Sockets :
       (/\ Deliver(t)
        /\ Receive(chan[t]).packet.e.ev = "mute-request"
        /\ Receive(chan[t]).packet.e.msg # SockUser(t))
         => upd' = upd]_vars

\* C23: a signaling relay request from a session that is not a member of the
\* room it names fails with an error to the sender, and nothing is
\* forwarded to a member of the room.
C23_RelayOutsideRoomRefused ==
  [][\A s \in Sockets, ev \in SignalEvents, r \in RoomNames, u \in Users,
        p \in Payloads :
       (RelaySignal(s, ev, r, u, p) /\ s \notin RoomMembers(r))
         => /\ \E e \in out' : e.ev = "error" /\ e.to = s
            /\ \A e \in out' : e.to = s]_vars

\* C24: a relayed signal goes to every member of the room but the sender,
\* once each and never to the sender, and each receiver gets the payload the
\* sender submitted, under the event name it was sent with.
C24_RelayToOthersUnchanged ==
  [][\A s \in Sockets, ev \in SignalEvents, r \in RoomNames, u \in Users,
        p \in Payloads :
       RelaySignal(s, ev, r, u, p)
         => /\ \A t \in RoomMembers(r) \ {s} : \E e \in out' : e.to = t
            /\ \A e \in out' :
                 /\ e.to \in RoomMembers(r) \ {s}
                 /\ e.ev = ev
                 /\ e.msg = p
                 /\ e.from = s
            /\ \A e1, e2 \in out' : e1.to = e2.to => e1 = e2]_vars

\* a member of a room of three has just sent an offer: the two others are
\* sent it
C24_Witness ==
  \E s \in Sockets :
    /\ s \in RoomMembers(AB)
    /\ Cardinality(RoomMembers(AB)) = 3
    /\ Cardinality(out) = 2
    /\ \A e \in out : e.ev = "webrtc-offer" /\ e.from = s /\ e.msg = "sdp2"

\* C25: a client acts on a signal only when the signal was addressed to its
\* own user: every offer a client has applied names that client's user as
\* its target.
C25_OnlyTargetActs ==
  \A t \in Sockets : \A a \in applied[t] : a.target = SockUser(t)

\* C26: a chat send by a session whose room reference is unset or is not the
\* room named in the request is answered with the error to the sender only:
\* no new-message is sent to anyone.
C26_ChatOutsideRoomRefused ==
  [][\A s \in Sockets, r \in RoomNames, x \in Messages :
       (currentMeeting[s] # r /\ SendMessage(s, r, x, "text"))
         => out' = {Evt(s, "error", s, r, 0, "Not in this meeting")}]_vars

\* a member of the call AB has been refused a text it sent for XY
C26_Witness ==
  \E e \in out :
    /\ e.ev = "error" /\ e.msg = "Not in this meeting"
    /\ currentMeeting[e.to] = AB
    /\ e.room = XY

\* y is x without its leading and trailing spaces
IsTrimOf(y, x) ==
  \E i \in 1..(Len(x) + 1), j \in 0..Len(x) :
    /\ y = SubSeq(x, i, j)
    /\ \A k \in 1..(i - 1) : x[k] = " "
    /\ \A k \in (j + 1)..Len(x) : x[k] = " "
    /\ y # <<>> => y[1] # " " /\ y[Len(y)] # " "

\* C27: a chat send by a member of the room sends exactly one new-message to
\* every member of the room, the sender included, and to nobody else; all
\* carry the same record: the same id, the sender's name, the kind, and as
\* text the submitted text without its leading and trailing whitespace.
C27_ChatToWholeRoom ==
  [][\A s \in Sockets, r \in RoomNames, x \in Messages :
       (currentMeeting[s] = r /\ SendMessage(s, r, x, "text"))
         => /\ \A t \in RoomMembers(r) \cup {s} : \E e \in out' : e.to = t
            /\ \A e \in out' :
                 /\ e.ev = "new-message"
                 /\ e.to \in RoomMembers(r)
                 /\ e.msg = UserName(SockUser(s))
                 /\ e.kind = "text"
                 /\ IsTrimOf(e.text, x)
            /\ \A e1, e2 \in out' :
                 /\ e1.id = e2.id /\ e1.text = e2.text
                 /\ e1.to = e2.to => e1 = e2]_vars

\* a text has just been sent in a room of three: all three, the sender
\* among them, are sent the message
C27_Witness ==
  /\ Cardinality(RoomMembers(AB)) = 3
  /\ Cardinality(out) = 3
  /\ \A e \in out : e.ev = "new-message" /\ e.text = <<"h", " ", "h">>
  /\ \E e \in out : e.to = e.from

\* C28: chat message ids are unique and increasing: of two messages a client
\* has received, the later one carries the greater id.
C28_ChatIdsIncrease ==
  \A t \in Sockets : \A i, j \in 1..Len(inbox[t]) :
    (/\ i < j
     /\ inbox[t][i].e.ev = "new-message"
     /\ inbox[t][j].e.ev = "new-message")
      => inbox[t][i].e.id < inbox[t][j].e.id

\* C29: when an operation ends in an error, the error goes to the session
\* that asked and no other session is sent anything by that operation.
C29_ErrorsToOriginatorOnly ==
  \A e \in out : e.ev = "error" => \A e2 \in out : e2.to = e.to

Count(seq, x) == Cardinality({i \in DOMAIN seq : seq[i] = x})

\* C31: the list the panel shows is a permutation of the participants it
\* was given; every host entry precedes every entry that is not a host's,
\* and entries with the same host flag are in ascending order of name.
C31_HostFirstThenByName ==
  [][Render =>
       /\ Len(rendered') = Len(participants)
       /\ \A x \in ListEntries : Count(rendered', x) = Count(participants, x)
       /\ \A i, j \in DOMAIN rendered' :
            i < j =>
              /\ rendered'[j].isHost => rendered'[i].isHost
              /\ rendered'[i].isHost = rendered'[j].isHost
                   => localeCompare(rendered'[i].name, rendered'[j].name) <= 0]_vars

\* a list of three with its host last and its names out of order has been
\* rendered
C31_Witness ==
  /\ Len(participants) = 3
  /\ Len(rendered) = 3
  /\ participants[3].isHost /\ ~participants[1].isHost /\ ~participants[2].isHost
  /\ localeCompare(participants[1].name, participants[2].name) > 0
  /\ rendered[1] = participants[3]

\* C32: a meeting whose expiresAt time has passed is not found by the
\* lookup of a join: the lookup returns nothing and the join fails as for a
\* meeting that does not exist.
C32_ExpiredNotFound ==
  [][\A s \in Sockets, r \in RoomNames :
       (Expired(db[toUpperCase(r)]) /\ JoinStart(s, r))
         => ~jdoc'[s].exists]_vars

\* C33: once the transport of a session has disconnected, an arrival event
\* broadcast to a room about that session is eventually followed by a
\* departure event about it.
C33_ArrivalThenDeparture ==
  \A s \in Sockets :
    (conn[s] = "disconnected"
       /\ \E e \in out : e.ev = "user-connected" /\ e.from = s)
      ~> (\E e \in out : e.ev = "user-disconnected" /\ e.from = s)

\* the stored entry of the user of s in the meeting its status request names
StoredEntry(s) ==
  LET doc == db[toUpperCase(upd[s].meetingId)]
  IN doc.participants[FirstEntry(doc, SockUser(s))]

\* C34: a status update that carries one flag only changes only that flag:
\* after the save the persisted value of the other flag is the value it had
\* before.
C34_OtherFlagKept ==
  [][\A s \in Sockets :
       (/\ upd[s].pc = "save"
        /\ upd[s].given # Flags
        /\ UpdateSave(s))
         => LET doc == db'[toUpperCase(upd[s].meetingId)]
                new == doc.participants[FirstEntry(doc, SockUser(s))]
            IN /\ "isMuted" \notin upd[s].given
                    => new.isMuted = StoredEntry(s).isMuted
               /\ "isVideoOn" \notin upd[s].given
                    => new.isVideoOn = StoredEntry(s).isVideoOn]_vars

\* C35: once the status handlers of a participant have all completed, the
\* persisted flags of the participant are the flags carried by the last
\* status event broadcast about it.
C35_StoredIsLastBroadcast ==
  \A e \in out :
    (/\ e.ev = "participant-status-updated"
     /\ SockUser(e.from) = "u1"
     /\ \A s \in Sockets : SockUser(s) = "u1" => upd[s].pc = "idle")
      => LET p == db[AB].participants[FirstEntry(db[AB], "u1")]
         IN e.msg = StatusMsg(p.isMuted, p.isVideoOn)

\* C36: the departure event of a session carries the user identifier its
\* arrival event carried, so a client that receives the departure of a
\* session holds no peer connection for that session afterwards.
C36_DepartureRemovesPeer ==
  [][\A t \in Sockets :
       (/\ chan[t] # <<>>
        /\ Receive(chan[t]).packet.e.ev = "user-disconnected"
        /\ Deliver(t))
         => LET e == Receive(chan[t]).packet.e
            IN /\ DataUserId(e) = FromUserId(e.from)
               /\ FromUserId(e.from) \notin peerConnections'[t]]_vars

\* the answers the joiner s is sent in a step
JoinAnswers(s) ==
  {e \in out' : e.to = s /\ e.from = s /\ e.ev \in {"meeting-joined", "error"}}

\* C37: a join request of a connected session is answered with exactly one of
\* meeting-joined and error in the step in which its handler ends, and with
\* neither while the handler is still waiting, for guests and users alike.
C37_ExactlyOneAnswer ==
  [][\A s \in Sockets :
       /\ (jpc[s] # "idle" /\ jpc'[s] = "idle" /\ conn[s] = "connected")
            => Cardinality(JoinAnswers(s)) = 1
       /\ jpc'[s] # "idle" => JoinAnswers(s) = {}]_vars

\* a guest's join has just been answered with an error, the guest being in
\* the room
C37_Witness ==
  /\ AB \in rooms["s4"]
  /\ jpc["s4"] = "idle"
  /\ \E e \in out : e.to = "s4" /\ e.ev = "error"
  /\ ~ \E e \in out : e.to = "s4" /\ e.ev = "meeting-joined"

\* the entries of a participant list that are not of user u
OthersOf(list, u) ==
  LET Keep(p) == p.userId # u
  IN SeqFilter(list, Keep)

\* C38: a leave through the REST route that answers 200 stores the meeting
\* as it was stored, less exactly the entries of the leaving user; and no
\* step of a join, leave, disconnect or status handler deletes or
\* deactivates a stored meeting.
C38_LeaveRemovesOnlyLeaver ==
  [][/\ \A u \in Users :
          (/\ rpc[u] = "leaveSave"
           /\ RestLeaveSave(u)
           /\ \E e \in out' : e.ev = "response" /\ e.status = 200)
            => db' = [db EXCEPT ![toUpperCase(rreq[u])].participants =
                                   OthersOf(@, u)]
     /\ \A id \in MeetingIds :
          /\ db'[id].exists = db[id].exists
          /\ db'[id].isActive = db[id].isActive]_vars

\* the meeting-deleted events of a step
DeletedEvents == {e \in out' : e.ev = "meeting-deleted"}

\* C39: a delete request of a user who is not the host of the stored meeting
\* is answered 403, changes nothing in the store and sends no meeting-deleted;
\* a delete request of the host sends meeting-deleted to every member of the
\* meeting's room and then removes the meeting, and a join request that
\* looks the meeting up after that is answered not found.
C39_OnlyHostDeletes ==
  [][/\ \A u \in Users :
          (rpc[u] = "deleteFind" /\ rdoc[u].exists /\ DeleteCheck(u))
            => IF rdoc[u].hostId # u
               THEN /\ out' = Res(u, 403, "Only the host can delete the meeting")
                    /\ rpc'[u] = "idle"
                    /\ db' = db
               ELSE /\ rpc'[u] = "deleteRun"
                    /\ \A s \in RoomMembers(toUpperCase(rreq[u])) :
                         \E e \in DeletedEvents : e.to = s
     /\ \A u \in Users :
          (rpc[u] = "deleteRun" /\ DeleteDone(u))
            => ~db'[toUpperCase(rreq[u])].exists
     /\ \A id \in MeetingIds :
          (db[id].exists /\ ~db'[id].exists)
            => \E u \in Users : rpc[u] = "deleteRun" /\ db[id].hostId = u
     /\ \A s \in Sockets :
          (jpc[s] = "idle" /\ jpc'[s] = "find" /\ db[toUpperCase(jreq'[s])] = Gone)
            => jdoc'[s] = NoDoc
     /\ \A s \in Sockets :
          (jpc[s] = "find" /\ ~jdoc[s].exists /\ JoinCheck(s))
            => /\ out' = Emit(s, "error", jreq[s], "Meeting not found")
               /\ rooms' = rooms]_vars
====
